---- MODULE Spec2Model ----
(***************************************************************************)
(* Model of the expression lexer and evaluator of bitparse                 *)
(* (src/src/parse.rs): lex, parse, is_prev_compatible, parse_number,       *)
(* apply_operator, operator_precedence and queue_operator.                 *)
(*                                                                         *)
(* A string is a sequence of one-character strings.  A Token is a record   *)
(* [type, text]; an Operator frame is a record [token, precedence].  The   *)
(* Result<u64, String> of parse is a record [kind, msg, text, val]: kind  *)
(* is "Ok", "Err", "Panic" (the thread unwinds) or "Running" (parse has    *)
(* not returned yet); msg is the fixed part of an error message, text and  *)
(* val the parts formatted into it.                                        *)
(*                                                                         *)
(* TLC's integers are 32 bits wide, so the machine word is WordBits wide   *)
(* instead of 64: every u64 operation below is taken modulo 2^WordBits and *)
(* overflows at 2^WordBits exactly as the u64 one does at 2^64.            *)
(***************************************************************************)
EXTENDS Integers, Sequences, FiniteSets, TLC

VARIABLES
    overflow_checks,  \* the build profile: TRUE = overflow checks on (debug)
    input,            \* parse's argument
    tokens,           \* lex(input)
    pos,              \* index of the token the for loop handles next
    operators,        \* the operator stack, top = last element
    operands,         \* the operand stack, top = last element
    prev_token,       \* Option<&Token>
    result            \* what parse returned, or Running

vars == <<overflow_checks, input, tokens, pos, operators, operands, prev_token, result>>

(***************************************************************************)
(* Bounds of the model.                                                    *)
(***************************************************************************)
WordBits == 8
MaxLen == 4
MaxDigits == 2

U64_MAX == 2^WordBits - 1

(***************************************************************************)
(* Results.                                                                *)
(***************************************************************************)
Res(kind, msg, text, val) == [kind |-> kind, msg |-> msg, text |-> text, val |-> val]
Running == Res("Running", "", <<>>, 0)
OkUnit == Res("Ok", "", <<>>, 0)
Ok(v) == Res("Ok", "", <<>>, v)
Err(msg, text) == Res("Err", msg, text, 0)
Panic(msg) == Res("Panic", msg, <<>>, 0)

(***************************************************************************)
(* Tokens.                                                                 *)
(***************************************************************************)
Tok(type, text) == [type |-> type, text |-> text]
None == Tok("None", <<>>)

Digits == {"0", "1", "2", "3", "4", "5", "6", "7", "8", "9"}
HexLetters == {"A", "B", "C", "D", "E", "F", "a", "b", "c", "d", "e", "f"}
Alpha ==
    {"A", "B", "C", "D", "E", "F", "G", "H", "I", "J", "K", "L", "M",
     "N", "O", "P", "Q", "R", "S", "T", "U", "V", "W", "X", "Y", "Z",
     "a", "b", "c", "d", "e", "f", "g", "h", "i", "j", "k", "l", "m",
     "n", "o", "p", "q", "r", "s", "t", "u", "v", "w", "x", "y", "z"}
Whitespace == {" ", "\t", "\n", "\r"}

\* iter.peek(): the character at i, or "" for None
Peek(s, i) == IF i <= Len(s) THEN s[i] ELSE ""

\* the first index >= i of s whose character is not in class
RECURSIVE ScanWhile(_, _, _)
ScanWhile(s, i, class) ==
    IF i <= Len(s) /\ s[i] \in class THEN ScanWhile(s, i + 1, class) ELSE i

RECURSIVE LexFrom(_, _, _)
LexFrom(s, i, toks) ==
    IF i > Len(s) THEN toks
    ELSE LET c == s[i] IN
        CASE c = "(" -> LexFrom(s, i + 1, Append(toks, Tok("OpenParen", <<c>>)))
          [] c = ")" -> LexFrom(s, i + 1, Append(toks, Tok("CloseParen", <<c>>)))
          [] c = "<" ->
                IF Peek(s, i + 1) = "<"
                THEN LexFrom(s, i + 2, Append(toks, Tok("Operator", <<"<", "<">>)))
                ELSE LexFrom(s, i + 1, toks)
          [] c = ">" ->
                IF Peek(s, i + 1) = ">"
                THEN LexFrom(s, i + 2, Append(toks, Tok("Operator", <<">", ">">>)))
                ELSE LexFrom(s, i + 1, toks)
          [] c \in {"~", "!"} ->
                LexFrom(s, i + 1, Append(toks, Tok("UnaryOperator", <<c>>)))
          [] c \in {"^", "*", "/", "%", "+", "-", "|", "&"} ->
                LexFrom(s, i + 1, Append(toks, Tok("Operator", <<c>>)))
          [] c \in {"x", "o", "b"} -> LexFrom(s, i + 1, toks)
          [] c \in Digits ->
                LET body == IF c = "0" /\ Peek(s, i + 1) \in {"b", "o", "x"}
                            THEN i + 2 ELSE i + 1
                    end == ScanWhile(s, body, Digits \cup HexLetters)
                IN LexFrom(s, end, Append(toks, Tok("Number", SubSeq(s, i, end - 1))))
          [] c \in Alpha \ {"x", "o", "b"} ->
                LET end == ScanWhile(s, i + 1, Alpha)
                IN LexFrom(s, end, Append(toks, Tok("Identifier", SubSeq(s, i, end - 1))))
          [] c \in Whitespace -> LexFrom(s, i + 1, toks)
          [] OTHER -> LexFrom(s, i + 1, Append(toks, Tok("Unknown", <<c>>)))

lex(s) == LexFrom(s, 1, <<>>)

(***************************************************************************)
(* parse_number.                                                           *)
(***************************************************************************)
starts_with(s, p) == Len(s) >= Len(p) /\ SubSeq(s, 1, Len(p)) = p

\* str::trim_start_matches: every repeated leading occurrence of p is removed
RECURSIVE trim_start_matches(_, _)
trim_start_matches(s, p) ==
    IF starts_with(s, p)
    THEN trim_start_matches(SubSeq(s, Len(p) + 1, Len(s)), p)
    ELSE s

DigitChars == <<"0", "1", "2", "3", "4", "5", "6", "7", "8", "9",
                "a", "b", "c", "d", "e", "f">>
UpperDigitChars == <<"0", "1", "2", "3", "4", "5", "6", "7", "8", "9",
                     "A", "B", "C", "D", "E", "F">>

\* char::to_digit for a radix of at most 16: the digit's value, or -1 for None
to_digit(c, radix) ==
    LET hits == {d \in 0..(radix - 1) : DigitChars[d + 1] = c \/ UpperDigitChars[d + 1] = c}
    IN IF hits = {} THEN -1 ELSE CHOOSE d \in hits : TRUE

\* u64::from_str_radix on the texts lex produces (no sign character):
\* [ok, val]; an empty text, an invalid digit and an overflow are errors
RECURSIVE FromDigits(_, _, _, _)
FromDigits(s, i, radix, acc) ==
    IF i > Len(s) THEN [ok |-> TRUE, val |-> acc]
    ELSE LET d == to_digit(s[i], radix) IN
        IF d < 0 \/ acc * radix + d > U64_MAX
        THEN [ok |-> FALSE, val |-> 0]
        ELSE FromDigits(s, i + 1, radix, acc * radix + d)

from_str_radix(s, radix) ==
    IF Len(s) = 0 THEN [ok |-> FALSE, val |-> 0] ELSE FromDigits(s, 1, radix, 0)

parse_number(text) ==
    IF starts_with(text, <<"0", "x">>)
    THEN from_str_radix(trim_start_matches(text, <<"0", "x">>), 16)
    ELSE IF starts_with(text, <<"0", "o">>)
    THEN from_str_radix(trim_start_matches(text, <<"0", "0">>), 8)
    ELSE IF starts_with(text, <<"0", "b">>)
    THEN from_str_radix(trim_start_matches(text, <<"0", "b">>), 2)
    ELSE from_str_radix(text, 10)

(***************************************************************************)
(* apply_operator.                                                         *)
(***************************************************************************)
Pow2(n) == 2^n

\* bitwise |, & and ^ on words, bit by bit
BitOf(sym, x, y) ==
    CASE sym = "|" -> IF x + y > 0 THEN 1 ELSE 0
      [] sym = "&" -> IF x + y = 2 THEN 1 ELSE 0
      [] sym = "^" -> IF x + y = 1 THEN 1 ELSE 0

RECURSIVE Bitwise(_, _, _, _)
Bitwise(sym, a, b, n) ==
    IF n = 0 THEN 0
    ELSE BitOf(sym, a % 2, b % 2) + 2 * Bitwise(sym, a \div 2, b \div 2, n - 1)

\* The outcome of pushing an arithmetic result: [status, operands].
\* With overflow checks the build panics on a result outside the word,
\* without them the result wraps.
Push(opnds, v) == [status |-> OkUnit, operands |-> Append(opnds, v)]
Fail(opnds, status) == [status |-> status, operands |-> opnds]

PushArith(opnds, raw, checks, what) ==
    IF 0 <= raw /\ raw <= U64_MAX THEN Push(opnds, raw)
    ELSE IF checks THEN Fail(opnds, Panic(what))
    ELSE Push(opnds, raw % Pow2(WordBits))

\* a shift by the word's width or more panics with overflow checks, and
\* shifts by the count masked to the width without them
PushShift(opnds, sym, a, b, checks) ==
    IF b >= WordBits /\ checks THEN Fail(opnds, Panic("attempt to shift with overflow"))
    ELSE LET n == b % WordBits IN
        IF sym = "<<" THEN Push(opnds, (a * Pow2(n)) % Pow2(WordBits))
        ELSE Push(opnds, a \div Pow2(n))

Sym(text) == IF Len(text) = 2 THEN (IF text[1] = "<" THEN "<<" ELSE ">>") ELSE text[1]

apply_operator(op, opnds, checks) ==
    IF Len(opnds) = 0
    THEN Fail(opnds, Err("not enough operands for", op.token.text))
    ELSE LET b == opnds[Len(opnds)]
             rest == SubSeq(opnds, 1, Len(opnds) - 1)
         IN
        IF op.token.type = "UnaryOperator" THEN
            CASE op.token.text = <<"~">> -> Push(rest, U64_MAX - b)
              [] op.token.text = <<"!">> -> Push(rest, IF b = 0 THEN 1 ELSE 0)
              [] OTHER -> Fail(rest, Err("Unsupported operator", op.token.text))
        ELSE IF op.token.type = "Operator" THEN
            IF Len(rest) = 0
            THEN Fail(rest, Err("not enough operands for", op.token.text))
            ELSE LET a == rest[Len(rest)]
                     rest2 == SubSeq(rest, 1, Len(rest) - 1)
                     sym == Sym(op.token.text)
                 IN
                CASE sym = "*" ->
                        PushArith(rest2, a * b, checks, "attempt to multiply with overflow")
                  [] sym = "/" ->
                        IF b = 0
                        THEN Fail(rest2, Res("Err", "Divide by zero", <<>>, a))
                        ELSE Push(rest2, a \div b)
                  [] sym = "%" ->
                        IF b = 0
                        THEN Fail(rest2, Panic("attempt to calculate the remainder with a divisor of zero"))
                        ELSE Push(rest2, a % b)
                  [] sym = "+" ->
                        PushArith(rest2, a + b, checks, "attempt to add with overflow")
                  [] sym = "-" ->
                        PushArith(rest2, a - b, checks, "attempt to subtract with overflow")
                  [] sym \in {">>", "<<"} -> PushShift(rest2, sym, a, b, checks)
                  [] sym \in {"|", "&", "^"} -> Push(rest2, Bitwise(sym, a, b, WordBits))
                  [] OTHER -> Fail(rest2, Err("Unsupported operator", op.token.text))
        ELSE Fail(rest, Err("Unsupported operator", op.token.text))

(***************************************************************************)
(* operator_precedence and queue_operator.                                 *)
(***************************************************************************)
operator_precedence(text) ==
    LET sym == Sym(text) IN
    CASE sym \in {"*", "/", "%"} -> 2
      [] sym \in {"+", "-"} -> 3
      [] sym \in {">>", "<<"} -> 4
      [] sym \in {"&", "^"} -> 5
      [] sym = "|" -> 6
      [] OTHER -> 7

Frame(token, precedence) == [token |-> token, precedence |-> precedence]

St(ops, opnds, status) == [operators |-> ops, operands |-> opnds, status |-> status]

\* the while loop of queue_operator: the frame compared is operators.first(),
\* the frame popped is the last one
RECURSIVE QueueLoop(_, _, _, _, _)
QueueLoop(precedence, ops, opnds, status, checks) ==
    IF Len(ops) > 0 /\ status.kind = "Ok" THEN
        LET top_op == ops[1] IN
        IF precedence <= top_op.precedence THEN St(ops, opnds, status)
        ELSE LET stack_op == ops[Len(ops)]
                 r == apply_operator(stack_op, opnds, checks)
             IN QueueLoop(precedence, SubSeq(ops, 1, Len(ops) - 1), r.operands, r.status, checks)
    ELSE St(ops, opnds, status)

\* a panic unwinds out of the loop; otherwise the frame is pushed and the
\* status of the loop returned
queue_operator(token, precedence, ops, opnds, checks) ==
    LET r == QueueLoop(precedence, ops, opnds, OkUnit, checks) IN
    IF r.status.kind = "Panic" THEN r
    ELSE St(Append(r.operators, Frame(token, precedence)), r.operands, r.status)

is_prev_compatible(prev) ==
    ~(prev = None \/ prev.type = "OpenParen" \/ prev.type = "Operator")

(***************************************************************************)
(* parse: the arms of the match on the token, and the code after the loop. *)
(***************************************************************************)
\* the CloseParen arm's loop: pops every frame, applying all but OpenParen
RECURSIVE CloseLoop(_, _, _, _)
CloseLoop(ops, opnds, openned, checks) ==
    IF Len(ops) = 0 THEN [operators |-> ops, operands |-> opnds,
                          status |-> OkUnit, openned |-> openned]
    ELSE LET op == ops[Len(ops)]
             popped == SubSeq(ops, 1, Len(ops) - 1)
         IN
        IF op.token.type = "OpenParen" THEN CloseLoop(popped, opnds, TRUE, checks)
        ELSE LET r == apply_operator(op, opnds, checks) IN
            IF r.status.kind = "Ok" THEN CloseLoop(popped, r.operands, openned, checks)
            ELSE [operators |-> popped, operands |-> r.operands,
                  status |-> r.status, openned |-> openned]

\* close_paren without the test of openned after the loop
close_paren_unchecked(ops, opnds, checks) ==
    LET r == CloseLoop(ops, opnds, FALSE, checks) IN
    St(r.operators, r.operands, r.status)

close_paren(ops, opnds, checks) ==
    LET r == CloseLoop(ops, opnds, FALSE, checks) IN
    IF r.status.kind = "Ok" /\ ~r.openned
    THEN St(r.operators, r.operands, Err("Missing open bracket", <<>>))
    ELSE St(r.operators, r.operands, r.status)

\* the loop after the for loop, and the final pop of the operand stack
RECURSIVE DrainLoop(_, _, _)
DrainLoop(ops, opnds, checks) ==
    IF Len(ops) = 0 THEN St(ops, opnds, OkUnit)
    ELSE LET op == ops[Len(ops)]
             popped == SubSeq(ops, 1, Len(ops) - 1)
         IN
        IF op.token.type = "OpenParen"
        THEN St(popped, opnds, Err("Unexpected open bracket", <<>>))
        ELSE LET r == apply_operator(op, opnds, checks) IN
            IF r.status.kind = "Ok" THEN DrainLoop(popped, r.operands, checks)
            ELSE St(popped, r.operands, r.status)

finish(ops, opnds, checks) ==
    LET r == DrainLoop(ops, opnds, checks) IN
    IF r.status.kind # "Ok" THEN r
    ELSE IF Len(r.operands) > 0
    THEN St(r.operators, SubSeq(r.operands, 1, Len(r.operands) - 1),
            Ok(r.operands[Len(r.operands)]))
    ELSE St(r.operators, r.operands, Err("No input", <<>>))

InLoop == result = Running /\ pos <= Len(tokens)
token == tokens[pos]

\* the end of an arm: the stacks as the arm left them, and either the next
\* iteration of the for loop or the return (or panic) of parse
Arm(r) ==
    /\ operators' = r.operators
    /\ operands' = r.operands
    /\ IF r.status.kind = "Ok"
       THEN /\ prev_token' = token
            /\ pos' = pos + 1
            /\ result' = result
       ELSE /\ result' = r.status
            /\ UNCHANGED <<prev_token, pos>>
    /\ UNCHANGED <<overflow_checks, input, tokens>>

ParseOpenParen ==
    /\ InLoop
    /\ token.type = "OpenParen"
    /\ Arm(queue_operator(token, 0, operators, operands, overflow_checks))

ParseCloseParen ==
    /\ InLoop
    /\ token.type = "CloseParen"
    /\ Arm(close_paren(operators, operands, overflow_checks))

ParseUnaryOperator ==
    /\ InLoop
    /\ token.type = "UnaryOperator"
    /\ Arm(queue_operator(token, 1, operators, operands, overflow_checks))

operator_arm(tok, prev, ops, opnds, checks) ==
    IF is_prev_compatible(prev)
    THEN queue_operator(tok, operator_precedence(tok.text), ops, opnds, checks)
    ELSE St(ops, opnds, Err("Syntax error at token", tok.text))

ParseOperator ==
    /\ InLoop
    /\ token.type = "Operator"
    /\ Arm(operator_arm(token, prev_token, operators, operands, overflow_checks))

ParseNumber ==
    /\ InLoop
    /\ token.type = "Number"
    /\ LET n == parse_number(token.text) IN
        IF n.ok THEN Arm(St(operators, Append(operands, n.val), OkUnit))
        ELSE Arm(St(operators, operands, Err("Unrecognised number", token.text)))

ParseIdentifier ==
    /\ InLoop
    /\ token.type = "Identifier"
    /\ Arm(St(operators, operands, OkUnit))

ParseUnknown ==
    /\ InLoop
    /\ token.type = "Unknown"
    /\ Arm(St(operators, operands, Err("Unrecognised token", token.text)))

ParseFinish ==
    /\ result = Running
    /\ pos > Len(tokens)
    /\ LET r == finish(operators, operands, overflow_checks) IN
        /\ operators' = r.operators
        /\ operands' = r.operands
        /\ result' = r.status
    /\ UNCHANGED <<overflow_checks, input, tokens, pos, prev_token>>

(***************************************************************************)
(* The inputs.                                                             *)
(***************************************************************************)
\* every string over chars of length lo..hi
Strings(chars, lo, hi) == UNION {[1..n -> chars] : n \in lo..hi}

CoreChars == {"(", ")", "!", "+", "/", "0", "1", "a", "?"}
ShortInputs == Strings(CoreChars, 0, MaxLen)

\* a op1 b op2 c over every binary operator
BinaryOps == {<<"*">>, <<"/">>, <<"%">>, <<"+">>, <<"-">>, <<">", ">">>,
              <<"<", "<">>, <<"&">>, <<"^">>, <<"|">>}
ChainOperands == {<<"1">>, <<"2">>, <<"8">>}
ChainInputs ==
    {a \o op1 \o b \o op2 \o c :
        a \in ChainOperands, b \in ChainOperands, c \in ChainOperands,
        op1 \in BinaryOps, op2 \in BinaryOps}

\* literals: an optional base prefix and up to MaxDigits digits
Prefixes == {<<>>, <<"0", "x">>, <<"0", "o">>, <<"0", "b">>}
LiteralDigits == {"0", "1", "7", "9", "F"}
LiteralInputs ==
    {p \o d : p \in Prefixes, d \in Strings(LiteralDigits, 1, MaxDigits)}

\* the expressions the specification gives as examples
ExampleInputs ==
    {<<"(", "1", "+", "2", ")", "*", "3">>, <<"1", "+", "2", "*", "3">>,
     <<"2", "+", "3", "*", "4">>, <<"2", "*", "3", "+", "4">>,
     <<"8", ">", ">", "1", "+", "1">>,
     <<"1", "|", "2", "*", "3", "+", "4">>,
     <<"~", "0", "+", "1">>, <<"!", "0", "*", "5">>,
     <<"1", "+", "!", "0", "*", "5">>,
     <<"5", "/", "0">>, <<"5", "%", "0">>,
     <<"(", "1", "+", "2">>, <<"(", "1">>, <<"(", "(", "1", ")">>,
     <<"1", "+", "2", ")">>, <<"1", ")">>, <<"(", "1", ")", ")">>,
     <<"0", "x", "1", "F">>, <<"0", "o", "1", "7">>,
     <<"0", "b", "1", "0", "1">>, <<"1", "0">>,
     <<"8", "-", "3", "-", "2">>,
     <<"1", "0", "0", "/", "1", "0", "/", "5">>,
     <<"7", "-", "2", "+", "1">>,
     <<"1", "+", "(", "2", ")", "*", "3">>, <<"(", "(", "1", ")", ")">>,
     <<"0", "x", "G", "G">>, <<"1", "!", "+", "2">>, <<"~", "+", "1">>}

Inputs == ShortInputs \cup ChainInputs \cup LiteralInputs \cup ExampleInputs

Init ==
    /\ overflow_checks \in BOOLEAN
    /\ input \in Inputs
    /\ tokens = lex(input)
    /\ pos = 1
    /\ operators = <<>>
    /\ operands = <<>>
    /\ prev_token = None
    /\ result = Running

Next ==
    \/ ParseOpenParen
    \/ ParseCloseParen
    \/ ParseUnaryOperator
    \/ ParseOperator
    \/ ParseNumber
    \/ ParseIdentifier
    \/ ParseUnknown
    \/ ParseFinish

Spec == Init /\ [][Next]_vars

TypeOK ==
    /\ result.kind \in {"Running", "Ok", "Err", "Panic"}
    /\ \A i \in 1..Len(operands) : operands[i] \in 0..U64_MAX
    /\ result.val \in 0..U64_MAX

(***************************************************************************)
(* Reference semantics used to state the properties: the value of an       *)
(* expression under the conventional reading, independent of the stacks.   *)
(***************************************************************************)
Returned == result # Running

TokenTypes(toks) == [i \in 1..Len(toks) |-> toks[i].type]

\* a sym b as a single application; ok is FALSE on overflow or a zero divisor
Bin(opTok, a, b) ==
    LET r == apply_operator(Frame(opTok, operator_precedence(opTok.text)), <<a, b>>, TRUE)
    IN IF r.status.kind = "Ok" THEN [ok |-> TRUE, val |-> r.operands[1]]
       ELSE [ok |-> FALSE, val |-> 0]

Lift(opTok, l, r) ==
    IF l.ok /\ r.ok THEN Bin(opTok, l.val, r.val) ELSE [ok |-> FALSE, val |-> 0]

\* Number (Operator Number)*
IsChain(toks) ==
    /\ Len(toks) % 2 = 1
    /\ \A i \in 1..Len(toks) :
        toks[i].type = (IF i % 2 = 1 THEN "Number" ELSE "Operator")

Ranks(toks) == {operator_precedence(toks[i].text) : i \in {j \in 1..Len(toks) : j % 2 = 0}}

MaxOf(S) == CHOOSE x \in S : \A y \in S : y <= x

\* the value of a chain: it splits at the rightmost operator of the loosest
\* rank, so tighter ranks apply first and equal ranks apply left to right
RECURSIVE RefEval(_)
RefEval(toks) ==
    IF Len(toks) = 1 THEN parse_number(toks[1].text)
    ELSE LET loosest == MaxOf(Ranks(toks))
             k == MaxOf({i \in 1..Len(toks) :
                            i % 2 = 0 /\ operator_precedence(toks[i].text) = loosest})
         IN Lift(toks[k], RefEval(SubSeq(toks, 1, k - 1)),
                 RefEval(SubSeq(toks, k + 1, Len(toks))))

\* the value of the digits d read in base radix
RECURSIVE PositionalValue(_, _)
PositionalValue(d, radix) ==
    IF Len(d) = 0 THEN 0
    ELSE PositionalValue(SubSeq(d, 1, Len(d) - 1), radix) * radix
         + (CHOOSE v \in 0..15 : DigitChars[v + 1] = d[Len(d)] \/ UpperDigitChars[v + 1] = d[Len(d)])

RadixOf(prefix) ==
    CASE prefix = <<"0", "x">> -> 16
      [] prefix = <<"0", "o">> -> 8
      [] prefix = <<"0", "b">> -> 2
      [] OTHER -> 10

ValidDigits(d, radix) ==
    \A i \in 1..Len(d) :
        \E v \in 0..(radix - 1) : DigitChars[v + 1] = d[i] \/ UpperDigitChars[v + 1] = d[i]

(***************************************************************************)
(* The properties.                                                         *)
(***************************************************************************)

\* C1: a parenthesised sub-expression is evaluated as a unit before the
\* operators outside it: "(a op1 b) op2 c" returns (a op1 b) op2 c and
\* "a op1 (b op2 c)" returns a op1 (b op2 c) whenever no step overflows or
\* divides by zero; "(1+2)*3" returns 9 and "1+2*3" returns 7.
C1_ParenthesesEvaluatedAsUnit ==
    Returned =>
        /\ TokenTypes(tokens) = <<"OpenParen", "Number", "Operator", "Number",
                                  "CloseParen", "Operator", "Number">> =>
            LET v == Lift(tokens[6],
                          Lift(tokens[3], parse_number(tokens[2].text),
                               parse_number(tokens[4].text)),
                          parse_number(tokens[7].text))
            IN v.ok => result = Ok(v.val)
        /\ TokenTypes(tokens) = <<"Number", "Operator", "OpenParen", "Number",
                                  "Operator", "Number", "CloseParen">> =>
            LET v == Lift(tokens[2], parse_number(tokens[1].text),
                          Lift(tokens[5], parse_number(tokens[4].text),
                               parse_number(tokens[6].text)))
            IN v.ok => result = Ok(v.val)
        /\ input = <<"(", "1", "+", "2", ")", "*", "3">> => result = Ok(9)
        /\ input = <<"1", "+", "2", "*", "3">> => result = Ok(7)

\* C2: a parenthesis-free chain of numbers and binary operators of pairwise
\* different ranks returns the value obtained by applying tighter-ranked
\* operators before looser ones (no overflow, no zero divisor):
\* 2+3*4 = 14, 2*3+4 = 10, 8>>1+1 = 2, 1|2*3+4 = 11.
C2_PrecedenceOrder ==
    (Returned /\ IsChain(tokens)
        /\ Cardinality(Ranks(tokens)) = (Len(tokens) - 1) \div 2
        /\ RefEval(tokens).ok)
    => result = Ok(RefEval(tokens).val)

\* C3: a unary operator applies to the single operand after it before any
\* binary operator uses that operand: "~0+1" is (~0)+1 (which overflows the
\* word: a panic with overflow checks, 0 without), "!0*5" is 5 and
\* "1+!0*5" is 6.
C3_UnaryBindsTightest ==
    Returned =>
        /\ input = <<"~", "0", "+", "1">> =>
            result = (IF overflow_checks THEN Panic("attempt to add with overflow")
                      ELSE Ok(0))
        /\ input = <<"!", "0", "*", "5">> => result = Ok(5)
        /\ input = <<"1", "+", "!", "0", "*", "5">> => result = Ok(6)

\* C4: "a / 0" and "a % 0" both return an Err reporting divide by zero,
\* for every left operand a.
C4_DivideOrModuloByZeroIsErr ==
    (Returned /\ IsChain(tokens) /\ Len(tokens) = 3
        /\ tokens[2].text \in {<<"/">>, <<"%">>}
        /\ parse_number(tokens[1].text).ok
        /\ parse_number(tokens[3].text) = [ok |-> TRUE, val |-> 0])
    => (result.kind = "Err" /\ result.msg = "Divide by zero")

\* C5: an otherwise well-formed input with a "(" that is never closed
\* ("(1+2", "(1", "((1)") returns Err("Unexpected open bracket").
C5_UnclosedOpenBracket ==
    (Returned /\ input \in {<<"(", "1", "+", "2">>, <<"(", "1">>,
                            <<"(", "(", "1", ")">>})
    => result = Err("Unexpected open bracket", <<>>)

\* every frame of ops applies successfully, from the top down
RECURSIVE AppliesAll(_, _, _)
AppliesAll(ops, opnds, checks) ==
    \/ Len(ops) = 0
    \/ LET r == apply_operator(ops[Len(ops)], opnds, checks) IN
        /\ r.status.kind = "Ok"
        /\ AppliesAll(SubSeq(ops, 1, Len(ops) - 1), r.operands, checks)

NoOpenParen(ops) == \A i \in 1..Len(ops) : ops[i].token.type # "OpenParen"

\* C6: when a ")" is processed while the operator stack holds no OpenParen
\* frame and every pending operator applies successfully, parse returns
\* Err("Missing open bracket").
C6_MissingOpenBracket ==
    [][(InLoop /\ token.type = "CloseParen" /\ NoOpenParen(operators)
            /\ AppliesAll(operators, operands, overflow_checks))
        => result' = Err("Missing open bracket", <<>>)]_vars

\* a ")" met with a pending binary operator and no OpenParen frame was
\* answered with Err("Missing open bracket")
C6_Witness ==
    /\ result = Err("Missing open bracket", <<>>)
    /\ pos > 1
    /\ tokens[pos].type = "CloseParen"
    /\ \E i \in 1..(pos - 1) : tokens[i].type = "Operator"
    /\ \A i \in 1..(pos - 1) : tokens[i].type # "OpenParen"

\* C7: a literal with an optional 0x, 0o or 0b prefix and digits valid for
\* its base, whose value fits the word, evaluates to that value:
\* 0x1F = 31, 0o17 = 15, 0b101 = 5, 10 = 10.
C7_BasePrefixedLiterals ==
    Returned =>
        /\ \A p \in Prefixes : \A d \in Strings(LiteralDigits, 1, MaxDigits) :
            (input = p \o d /\ ValidDigits(d, RadixOf(p))
                /\ PositionalValue(d, RadixOf(p)) <= U64_MAX)
            => result = Ok(PositionalValue(d, RadixOf(p)))
        /\ input = <<"0", "x", "1", "F">> => result = Ok(31)
        /\ input = <<"0", "o", "1", "7">> => result = Ok(15)
        /\ input = <<"0", "b", "1", "0", "1">> => result = Ok(5)
        /\ input = <<"1", "0">> => result = Ok(10)

\* C8: a parenthesis-free chain of binary operators of one rank returns the
\* left-associative value (no overflow, no zero divisor): 8-3-2 = 3,
\* 100/10/5 = 2, 7-2+1 = 6.
C8_LeftAssociative ==
    (Returned /\ IsChain(tokens) /\ Len(tokens) >= 5
        /\ Cardinality(Ranks(tokens)) = 1
        /\ RefEval(tokens).ok)
    => result = Ok(RefEval(tokens).val)

\* the index of the OpenParen frame nearest the top of ops
NearestOpenParen(ops) ==
    MaxOf({i \in 1..Len(ops) : ops[i].token.type = "OpenParen"})

\* C9: a ")" pops down to the nearest OpenParen frame and stops: when parse
\* goes on after it, the frames pushed before that OpenParen are still on
\* the operator stack, unchanged.
C9_CloseParenStopsAtOpenParen ==
    [][(InLoop /\ token.type = "CloseParen" /\ ~NoOpenParen(operators)
            /\ result' = Running)
        => operators' = SubSeq(operators, 1, NearestOpenParen(operators) - 1)]_vars

\* C10: a binary operator that is the first token or directly follows an
\* OpenParen, a binary operator or a unary operator is answered with
\* Err("Syntax error at token <op>"), and the stacks are left as they were.
C10_OperatorNeedsValueBefore ==
    [][(InLoop /\ token.type = "Operator"
            /\ prev_token.type \notin {"Number", "Identifier", "CloseParen"})
        => /\ result' = Err("Syntax error at token", token.text)
           /\ UNCHANGED <<operators, operands>>]_vars

====
